---------------------------- MODULE Spec2Model ----------------------------
(***************************************************************************)
(* Model of the wikipedia-text pipeline:                                   *)
(*   extract.py  decode / flatten / clean / encode / parse / process       *)
(*   convert.py  to_plain_text                                             *)
(*   clean.py    normalize / tokenize / simplify / to_tokens               *)
(*                                                                         *)
(* Text is a sequence of characters; a character is a one-element name     *)
(* ("x", " ", "HT", ...).  Python's None for an absent text is <<>>.       *)
(***************************************************************************)
EXTENDS Integers, Sequences, FiniteSets, TLC

(***************************************************************************)
(* Bounds of the model.                                                    *)
(***************************************************************************)
\* Largest number of HTML elements below the content container of a page.
MaxNodes == 2
\* Largest number of characters of a line of text given to clean.py.
MaxLen == 3
\* Largest number of directory entries of an archive.
MaxEntries == 2

(***************************************************************************)
(* Characters.                                                             *)
(***************************************************************************)
SP == " "
HT == "HT"
LF == "LF"
FF == "FF"
CR == "CR"
VT == "VT"
ZWSP == "U+200B"
NBSP == "U+00A0"

\* r_white = re.compile(r'[ \t\f\r\n\u200B]+')
r_white == {SP, HT, FF, CR, LF, ZWSP}

\* The characters str.strip() removes (str.isspace); U+200B is not one.
PyWhitespace == {SP, HT, LF, VT, FF, CR, NBSP}

Last(s) == s[Len(s)]
Front(s) == SubSeq(s, 1, Len(s) - 1)

RECURSIVE lstrip(_)
lstrip(s) ==
    IF s # <<>> /\ Head(s) \in PyWhitespace THEN lstrip(Tail(s)) ELSE s

RECURSIVE rstrip(_)
rstrip(s) ==
    IF s # <<>> /\ Last(s) \in PyWhitespace THEN rstrip(Front(s)) ELSE s

strip(s) == rstrip(lstrip(s))

\* r_white.sub(' ', item): every maximal run of r_white becomes one space.
RECURSIVE SkipWhite(_)
SkipWhite(s) ==
    IF s # <<>> /\ Head(s) \in r_white THEN SkipWhite(Tail(s)) ELSE s

RECURSIVE r_white_sub(_)
r_white_sub(s) ==
    IF s = <<>> THEN <<>>
    ELSE IF Head(s) \in r_white THEN <<SP>> \o r_white_sub(SkipWhite(s))
    ELSE <<Head(s)>> \o r_white_sub(Tail(s))

(***************************************************************************)
(* HTML elements (lxml): tag, text, children, tail, the href attribute.    *)
(***************************************************************************)
NoAttr == "<absent>"
NoId == <<>>

Element(tag, href, text, children, tail) ==
    [tag |-> tag, href |-> href, text |-> text, children |-> children,
     tail |-> tail]

(***************************************************************************)
(* Semantic nodes.  A content item is a Node or a string; both are records *)
(* of one shape, a string being the item whose tag is StrTag.  id stands   *)
(* for the identity of the Python object.                                  *)
(***************************************************************************)
StrTag == "#str"
KeyErrorTag == "!KeyError"

Str(text) ==
    [tag |-> StrTag, id |-> NoId, level |-> 0, href |-> NoAttr,
     text |-> text, content |-> <<>>]

Node(tag, id, level, href, content) ==
    [tag |-> tag, id |-> id, level |-> level, href |-> href,
     text |-> <<>>, content |-> content]

IsNode(item) == item.tag # StrTag

\* The node an event refers to: the object without its content, which the
\* later stages never read through an event.
Ref(node) == [node EXCEPT !.content = <<>>]

\* decode's tag classes
StructuralTags == {"blockquote", "ul", "ol", "dl", "li", "dt", "dd"}
HeaderLevel ==
    [t \in {"h1", "h2", "h3", "h4", "h5", "h6"} |->
        CASE t = "h1" -> 1 [] t = "h2" -> 2 [] t = "h3" -> 3
          [] t = "h4" -> 4 [] t = "h5" -> 5 [] t = "h6" -> 6]
ParagraphTags == {"div", "p"}
KeptTags == {"cite", "q", "sub", "sup"}
CodeTags == {"code", "kbd", "tt", "var"}
MarkerTags == {"br", "math"}
StrippedTags ==
    {"b", "bdi", "big", "del", "dfn", "em", "font", "i", "ins", "mark", "rb",
     "ruby", "s", "small", "span", "strong", "u", "wbr"}
IgnoredTags ==
    {"audio", "center", "hr", "img", "meta", "pre", "rp", "rt", "rtc", "table"}

Raised(content) == \E i \in 1..Len(content) : content[i].tag = KeyErrorTag
RaiseKeyError == <<[Str(<<>>) EXCEPT !.tag = KeyErrorTag]>>

RECURSIVE decode(_, _)
RECURSIVE decode_children(_, _, _)

\* for child in element.getchildren(): result.extend(decode(child))
decode_children(children, path, i) ==
    IF i > Len(children) THEN <<>>
    ELSE LET first == decode(children[i], path \o <<i>>)
         IN  IF Raised(first) THEN RaiseKeyError
             ELSE LET rest == decode_children(children, path, i + 1)
                  IN  IF Raised(rest) THEN RaiseKeyError ELSE first \o rest

\* decode.build
build(element, path, tag, ignore_element, ignore_content, level, href) ==
    LET text == IF element.text # <<>> THEN <<Str(element.text)>> ELSE <<>>
        tail == IF element.tail # <<>> THEN <<Str(element.tail)>> ELSE <<>>
        inner == IF ignore_content THEN <<>>
                 ELSE decode_children(element.children, path, 1)
        content == IF ignore_content THEN <<>> ELSE text \o inner
    IN  IF Raised(inner) THEN RaiseKeyError
        ELSE IF ignore_element THEN content \o tail
        ELSE <<Node(tag, path, level, href, content)>> \o tail

decode(element, path) ==
    LET t == element.tag
    IN  IF t \in StructuralTags
            THEN build(element, path, t, FALSE, FALSE, 0, NoAttr)
        ELSE IF t \in DOMAIN HeaderLevel
            THEN build(element, path, "h", FALSE, FALSE, HeaderLevel[t], NoAttr)
        ELSE IF t \in ParagraphTags
            THEN build(element, path, "p", FALSE, FALSE, 0, NoAttr)
        ELSE IF t = "a"
            THEN IF element.href = NoAttr THEN RaiseKeyError
                 ELSE build(element, path, t, FALSE, FALSE, 0, element.href)
        ELSE IF t \in {"abbr", "time"} \cup KeptTags
            THEN build(element, path, t, FALSE, FALSE, 0, NoAttr)
        ELSE IF t \in CodeTags
            THEN build(element, path, "code", FALSE, FALSE, 0, NoAttr)
        ELSE IF t \in MarkerTags
            THEN build(element, path, t, FALSE, TRUE, 0, NoAttr)
        ELSE IF t \in StrippedTags
            THEN build(element, path, t, TRUE, FALSE, 0, NoAttr)
        ELSE build(element, path, t, TRUE, TRUE, 0, NoAttr)

(***************************************************************************)
(* Events: a tuple (begin, node) or a string.                              *)
(***************************************************************************)
Tuple(begin, node) == [str |-> FALSE, begin |-> begin, node |-> node, text |-> <<>>]
Text(text) == [str |-> TRUE, begin |-> FALSE, node |-> Str(<<>>), text |-> text]

FlattenStructural == {"h", "blockquote", "ul", "ol", "dl", "li", "dt", "dd"}

RECURSIVE traverse(_, _)
\* A traversal that opens a nested paragraph without closing the current
\* one first, and does not reopen it afterwards.
traverse_node_keep_open(node, stack) ==
    LET top == IF stack # <<>> THEN <<Ref(Last(stack))>> ELSE <<>>
        close_top == IF top # <<>> THEN <<Tuple(FALSE, top[1])>> ELSE <<>>
        open_top == IF top # <<>> THEN <<Tuple(TRUE, top[1])>> ELSE <<>>
    IN  IF IsNode(node) THEN
            IF node.tag = "p" THEN
                <<Tuple(TRUE, Ref(node))>>
                \o traverse(node.content, Append(stack, node))
                \o <<Tuple(FALSE, Ref(node))>>
            ELSE IF node.tag \in FlattenStructural THEN
                close_top \o <<Tuple(TRUE, Ref(node))>> \o open_top
                \o traverse(node.content, stack)
                \o close_top \o <<Tuple(FALSE, Ref(node))>> \o open_top
            ELSE
                <<Tuple(TRUE, Ref(node))>>
                \o traverse(node.content, stack)
                \o <<Tuple(FALSE, Ref(node))>>
        ELSE <<Text(node.text)>>

traverse_node(node, stack) ==
    LET top == IF stack # <<>> THEN <<Ref(Last(stack))>> ELSE <<>>
        close_top == IF top # <<>> THEN <<Tuple(FALSE, top[1])>> ELSE <<>>
        open_top == IF top # <<>> THEN <<Tuple(TRUE, top[1])>> ELSE <<>>
    IN  IF IsNode(node) THEN
            IF node.tag = "p" THEN
                close_top \o <<Tuple(TRUE, Ref(node))>>
                \o traverse(node.content, Append(stack, node))
                \o <<Tuple(FALSE, Ref(node))>> \o open_top
            ELSE IF node.tag \in FlattenStructural THEN
                close_top \o <<Tuple(TRUE, Ref(node))>> \o open_top
                \o traverse(node.content, stack)
                \o close_top \o <<Tuple(FALSE, Ref(node))>> \o open_top
            ELSE
                <<Tuple(TRUE, Ref(node))>>
                \o traverse(node.content, stack)
                \o <<Tuple(FALSE, Ref(node))>>
        ELSE <<Text(node.text)>>

traverse(content, stack) ==
    IF content = <<>> THEN <<>>
    ELSE traverse_node(Head(content), stack) \o traverse(Tail(content), stack)

flatten(content) == traverse(content, <<>>)

(***************************************************************************)
(* clean: concatenation and empty node pruning.  Positions are 1-based:    *)
(* Python's index i is position i + 1, and start = None is position 0.     *)
(***************************************************************************)
None == 0

\* The for loop of accept over range(start, end).
RECURSIVE accept_loop(_, _, _, _, _, _, _)
\* A loop that, once the paragraph has a node, appends each string as it
\* comes instead of concatenating it to the buffer.
accept_loop_no_concat(sequence, i, start, end, has, buffer, result) ==
    IF i < end /\ sequence[i].str /\ has THEN
        accept_loop(sequence, i + 1, start, end, has, buffer,
                    Append(result, Text(r_white_sub(sequence[i].text))))
    ELSE IF i >= end THEN
        IF has THEN
            LET b == rstrip(buffer)
            IN  (IF Len(b) > 0 THEN Append(result, Text(b)) ELSE result)
                \o <<sequence[end]>>
        ELSE
            LET b == strip(buffer)
            IN  IF Len(b) > 0
                THEN result \o <<sequence[start - 1], Text(b), sequence[end]>>
                ELSE result
    ELSE
        LET item == sequence[i]
        IN  IF item.str THEN
                accept_loop(sequence, i + 1, start, end, has,
                            buffer \o r_white_sub(item.text), result)
            ELSE IF ~has THEN
                LET b == lstrip(buffer)
                IN  accept_loop(sequence, i + 1, start, end, TRUE, <<>>,
                        Append(result, sequence[start - 1])
                        \o (IF Len(b) > 0 THEN <<Text(b)>> ELSE <<>>)
                        \o <<item>>)
            ELSE
                accept_loop(sequence, i + 1, start, end, TRUE, <<>>,
                        (IF Len(buffer) > 0 THEN Append(result, Text(buffer))
                         ELSE result) \o <<item>>)

accept_loop(sequence, i, start, end, has, buffer, result) ==
    IF i >= end THEN
        IF has THEN
            LET b == rstrip(buffer)
            IN  (IF Len(b) > 0 THEN Append(result, Text(b)) ELSE result)
                \o <<sequence[end]>>
        ELSE
            LET b == strip(buffer)
            IN  IF Len(b) > 0
                THEN result \o <<sequence[start - 1], Text(b), sequence[end]>>
                ELSE result
    ELSE
        LET item == sequence[i]
        IN  IF item.str THEN
                accept_loop(sequence, i + 1, start, end, has,
                            buffer \o r_white_sub(item.text), result)
            ELSE IF ~has THEN
                LET b == lstrip(buffer)
                IN  accept_loop(sequence, i + 1, start, end, TRUE, <<>>,
                        Append(result, sequence[start - 1])
                        \o (IF Len(b) > 0 THEN <<Text(b)>> ELSE <<>>)
                        \o <<item>>)
            ELSE
                accept_loop(sequence, i + 1, start, end, TRUE, <<>>,
                        (IF Len(buffer) > 0 THEN Append(result, Text(buffer))
                         ELSE result) \o <<item>>)

accept(sequence, start, end, result) ==
    accept_loop(sequence, start, start, end, FALSE, <<>>, result)

\* The for loop of clean; error is set when accept is called with start = None
\* (range(None, index) raises TypeError).
RECURSIVE clean_loop(_, _, _, _)
clean_loop(sequence, index, start, result) ==
    IF index > Len(sequence) THEN [result |-> result, error |-> ""]
    ELSE
        LET item == sequence[index]
        IN  IF ~item.str THEN
                IF item.node.tag = "p" THEN
                    IF item.begin
                    THEN clean_loop(sequence, index + 1, index + 1, result)
                    ELSE IF start = None
                    THEN [result |-> result, error |-> "TypeError"]
                    ELSE clean_loop(sequence, index + 1, None,
                                    accept(sequence, start, index, result))
                ELSE IF start = None
                THEN clean_loop(sequence, index + 1, start, Append(result, item))
                ELSE clean_loop(sequence, index + 1, start, result)
            ELSE clean_loop(sequence, index + 1, start, result)

clean(sequence) == clean_loop(sequence, 1, None, <<>>)

(***************************************************************************)
(* encode: the XML tree of a clean sequence.                               *)
(***************************************************************************)
Xml(tag, url, title, level, href, text, children, tail) ==
    [tag |-> tag, url |-> url, title |-> title, level |-> level,
     href |-> href, text |-> text, children |-> children, tail |-> tail]

EncodeTags ==
    {"blockquote", "ul", "ol", "dl", "li", "dt", "dd", "p", "cite", "q",
     "sub", "sup", "code", "math", "br"}

LicensePrefix == <<"This article is issued from">>

startswith(text, prefix) ==
    Len(text) >= Len(prefix) /\ SubSeq(text, 1, Len(prefix)) = prefix

Failed(tag, index, error) ==
    [element |-> Xml(tag, NoAttr, <<>>, 0, NoAttr, <<>>, <<>>, <<>>),
     index |-> index, error |-> error, warned |-> FALSE]

RECURSIVE encode_build(_, _)
RECURSIVE encode_children(_, _, _, _)

\* The while loop of encode.build: children until the end of the block.
encode_children(sequence, index, children, warned) ==
    IF index > Len(sequence)
        THEN [children |-> children, index |-> index, error |-> "IndexError",
              warned |-> warned]
    ELSE IF sequence[index].str
        THEN [children |-> children, index |-> index, error |-> "ValueError",
              warned |-> warned]
    ELSE IF ~sequence[index].begin
        THEN [children |-> children, index |-> index, error |-> "",
              warned |-> warned]
    ELSE
        LET c == encode_build(sequence, index)
        IN  IF c.error # ""
            THEN [children |-> children, index |-> c.index, error |-> c.error,
                  warned |-> warned \/ c.warned]
            ELSE IF c.index > Len(sequence)
            THEN [children |-> children, index |-> c.index,
                  error |-> "IndexError", warned |-> warned \/ c.warned]
            ELSE IF sequence[c.index].str
            THEN encode_children(sequence, c.index + 1,
                    Append(children,
                           [c.element EXCEPT !.tail = sequence[c.index].text]),
                    warned \/ c.warned)
            ELSE encode_children(sequence, c.index,
                    Append(children, c.element), warned \/ c.warned)

\* encode.build(start)
encode_build(sequence, start) ==
    LET node == sequence[start].node
        known == node.tag \in {"root", "h", "a", "abbr", "time"} \cup EncodeTags
        tag == IF node.tag = "root" THEN "article" ELSE node.tag
        index == start + 1
    IN  IF ~known THEN Failed(node.tag, start, "AssertionError")
        ELSE IF index > Len(sequence) THEN Failed(tag, index, "IndexError")
        ELSE
            LET hastext == sequence[index].str
                text == IF hastext THEN sequence[index].text ELSE <<>>
                kids == encode_children(sequence,
                            IF hastext THEN index + 1 ELSE index, <<>>, FALSE)
                inline == tag \in {"h", "dt"} /\ Len(kids.children) > 0
                paragraph == kids.children[1]
            IN  IF kids.error # ""
                THEN [Failed(tag, kids.index, kids.error)
                        EXCEPT !.warned = kids.warned]
                ELSE
                    [element |->
                        Xml(tag,
                            IF node.tag = "root" THEN node.href ELSE NoAttr,
                            IF node.tag = "root" THEN node.text ELSE <<>>,
                            node.level,
                            IF node.tag = "a" THEN node.href ELSE NoAttr,
                            IF inline THEN paragraph.text ELSE text,
                            IF inline THEN paragraph.children
                                      ELSE kids.children,
                            <<>>),
                     index |-> kids.index + 1,
                     error |-> "",
                     warned |-> kids.warned
                                \/ (inline /\ Len(kids.children) > 1)]

\* The root node of encode carries url and title (held in href and text).
RootNode(url, title) ==
    [Node("root", <<>>, 0, url, <<>>) EXCEPT !.text = title]

encode(url, title, sequence) ==
    LET root == RootNode(url, title)
        padded == <<Tuple(TRUE, root)>> \o sequence \o <<Tuple(FALSE, root)>>
        built == encode_build(padded, 1)
        element == built.element
        n == Len(element.children)
        hack == /\ n > 0
                /\ element.children[n].tag = "p"
                /\ startswith(element.children[n].text, LicensePrefix)
    IN  IF built.error # "" \/ ~hack THEN built
        ELSE [built EXCEPT !.element.children = Front(element.children)]

(***************************************************************************)
(* parse: HTML bytes to XML article.  A page is NoContent (no element with *)
(* id mw-content-text) or its content element.                             *)
(***************************************************************************)
NoContent == Element("<none>", NoAttr, <<>>, <<>>, <<>>)

parse_root(data) ==
    Node("p", <<0>>, 0, NoAttr,
         IF data = NoContent THEN <<>> ELSE decode(data, <<1>>))

\* [element, error]: the article, or the exception parse ends with.
parse(url, title, data) ==
    LET root == parse_root(data)
    IN  IF Raised(root.content)
        THEN [element |-> Failed("article", 0, "KeyError").element,
              error |-> "KeyError", warned |-> FALSE]
        ELSE LET cleaned == clean(flatten(<<root>>))
                 built == encode(url, title, cleaned.result)
             IN  IF cleaned.error # ""
                 THEN [element |-> Failed("article", 0, "").element,
                       error |-> cleaned.error, warned |-> FALSE]
                 ELSE [element |-> built.element, error |-> built.error,
                       warned |-> built.warned]

(***************************************************************************)
(* convert.to_plain_text: one line per p element, at its end event.        *)
(***************************************************************************)
RECURSIVE itertext(_)
RECURSIVE itertext_children(_, _)
itertext_children(children, i) ==
    IF i > Len(children) THEN <<>>
    ELSE itertext(children[i]) \o children[i].tail
         \o itertext_children(children, i + 1)

\* ''.join(element.itertext()): the text, then each child with its tail.
itertext(element) == element.text \o itertext_children(element.children, 1)

RECURSIVE plain_lines(_)
RECURSIVE plain_lines_children(_, _)
plain_lines_children(children, i) ==
    IF i > Len(children) THEN <<>>
    ELSE plain_lines(children[i]) \o plain_lines_children(children, i + 1)

\* The lines written for one element: end events come in post-order.
plain_lines(element) ==
    plain_lines_children(element.children, 1)
    \o (IF element.tag = "p" THEN <<itertext(element)>> ELSE <<>>)

(***************************************************************************)
(* clean.py.  The characters of the model and their Unicode classes.       *)
(***************************************************************************)
NUL == "NUL"
DEL == "DEL"
QUOT == "QUOT"
LAQUO == "U+00AB"
PERMILLE == "U+2030"
UPARROW == "U+2191"
SZ == "U+00DF"
ZHONG == "U+4E2D"
IDOT == "U+0130"
CDOT == "U+0307"
ALEF_HAMZA == "U+0623"
EURO == "U+20AC"
PRIVATE == "U+F0000"

AsciiControl == {NUL, HT, LF, VT, FF, CR, DEL}
AsciiPrintable ==
    {SP, QUOT, "%", ",", "0", "1", "A", "I", "Z", "a", "g", "h", "i", "n",
     "o", "s", "x"}
\* codepoint > 0xeffff, or a surrogate
Unmappable == {PRIVATE}

\* \p{L}
Letters ==
    {"A", "I", "Z", "a", "g", "h", "i", "n", "o", "s", "x", SZ, ZHONG, IDOT,
     ALEF_HAMZA}
\* \d
Digits == {"0", "1"}
\* \s of the regex module
RegexSpace == {SP, HT, LF, VT, FF, CR, NBSP}

\* The Unidecode tables, for the characters of the model.
UnidecodeTable ==
    [c \in {NBSP, LAQUO, SZ, ZHONG, IDOT, EURO, PERMILLE} |->
        CASE c = NBSP -> <<SP>>
          [] c = LAQUO -> <<"<", "<">>
          [] c = SZ -> <<"s", "s">>
          [] c = ZHONG -> <<"Z", "h", "o", "n", "g", SP>>
          [] c = IDOT -> <<"I">>
          [] c = EURO -> <<"E", "U", "R">>
          [] c = PERMILLE -> <<"%", "0">>]

unidecode_char(char) ==
    IF char \in AsciiControl \cup AsciiPrintable THEN <<char>>
    ELSE IF char \in Unmappable THEN <<>>
    ELSE IF char \in DOMAIN UnidecodeTable THEN UnidecodeTable[char]
    ELSE <<>>

\* Keys are strings: the symbols are one character long, the accented
\* letters of the source file are two characters long each.
NORMALIZED_OVERRIDDEN_CHARACTERS ==
    (<<LAQUO>> :> <<QUOT>>)
    @@ (<<PERMILLE>> :> <<"%">>)
    @@ (<<UPARROW>> :> <<>>)
    @@ (<<ALEF_HAMZA, EURO>> :> <<ALEF_HAMZA, EURO>>)

NORMALIZED_MAPPED_CHARACTERS(c) ==
    IF c = HT THEN <<SP>>
    ELSE IF c = LF THEN <<LF>>
    ELSE IF c \in AsciiControl THEN <<>>
    ELSE <<c>>

RECURSIVE MapAll(_)
MapAll(s) ==
    IF s = <<>> THEN <<>>
    ELSE NORMALIZED_MAPPED_CHARACTERS(Head(s)) \o MapAll(Tail(s))

normalize_char(char) ==
    IF <<char>> \in DOMAIN NORMALIZED_OVERRIDDEN_CHARACTERS
    THEN NORMALIZED_OVERRIDDEN_CHARACTERS[<<char>>]
    ELSE MapAll(unidecode_char(char))

RECURSIVE SkipSpace(_)
SkipSpace(s) ==
    IF s # <<>> /\ Head(s) \in RegexSpace THEN SkipSpace(Tail(s)) ELSE s

\* _whitespace.sub(' ', result)
RECURSIVE whitespace_sub(_)
whitespace_sub(s) ==
    IF s = <<>> THEN <<>>
    ELSE IF Head(s) \in RegexSpace THEN <<SP>> \o whitespace_sub(SkipSpace(s))
    ELSE <<Head(s)>> \o whitespace_sub(Tail(s))

RECURSIVE FoldAll(_)
FoldAll(text) ==
    IF text = <<>> THEN <<>>
    ELSE normalize_char(Head(text)) \o FoldAll(Tail(text))

\* A normalize that collapses whitespace before it folds the characters.
normalize_collapse_first(text) == strip(FoldAll(whitespace_sub(text)))

normalize(text) == strip(whitespace_sub(FoldAll(text)))

(***************************************************************************)
(* tokenize: _token = \s*((?:\p{L}|\d)+|.) matched at pos again and again. *)
(* Positions are 1-based: pos is the position of the first character the   *)
(* match may use.                                                          *)
(***************************************************************************)
RECURSIVE RunLength(_, _, _)
RunLength(text, p, class) ==
    IF p <= Len(text) /\ text[p] \in class
    THEN 1 + RunLength(text, p + 1, class) ELSE 0

NoMatch == [start |-> 0, end |-> 0]

\* The match with \s* taking k characters, and on failure one fewer.
\* The dot matches every character but the line feed.
RECURSIVE token_match_from(_, _, _)
token_match_from(text, pos, k) ==
    LET q == pos + k
    IN  IF q <= Len(text) /\ text[q] \in Letters \cup Digits
            THEN [start |-> q,
                  end |-> q + RunLength(text, q, Letters \cup Digits) - 1]
        ELSE IF q <= Len(text) /\ text[q] # LF
            THEN [start |-> q, end |-> q]
        ELSE IF k = 0 THEN NoMatch
        ELSE token_match_from(text, pos, k - 1)

\* A pattern without the leading \s*: whitespace is matched by the dot.
token_match_no_skip(text, pos) == token_match_from(text, pos, 0)

token_match(text, pos) ==
    token_match_from(text, pos, RunLength(text, pos, RegexSpace))

RECURSIVE tokenize_from(_, _)
tokenize_from(text, pos) ==
    LET m == token_match(text, pos)
    IN  IF m = NoMatch THEN <<>>
        ELSE <<SubSeq(text, m.start, m.end)>> \o tokenize_from(text, m.end + 1)

tokenize(text) == tokenize_from(text, 1)

\* The spans match.start(1)..match.end(1) of the tokens tokenize yields.
RECURSIVE token_spans_from(_, _)
token_spans_from(text, pos) ==
    LET m == token_match(text, pos)
    IN  IF m = NoMatch THEN <<>>
        ELSE <<m>> \o token_spans_from(text, m.end + 1)

token_spans(text) == token_spans_from(text, 1)

\* str.lower, character by character
lower_char(c) ==
    IF c = "A" THEN <<"a">>
    ELSE IF c = "I" THEN <<"i">>
    ELSE IF c = "Z" THEN <<"z">>
    ELSE IF c = IDOT THEN <<"i", CDOT>>
    ELSE <<c>>

RECURSIVE lower(_)
lower(s) == IF s = <<>> THEN <<>> ELSE lower_char(Head(s)) \o lower(Tail(s))

RECURSIVE SkipDigits(_)
SkipDigits(s) ==
    IF s # <<>> /\ Head(s) \in Digits THEN SkipDigits(Tail(s)) ELSE s

\* _digits.sub('0', token)
RECURSIVE digits_sub(_)
digits_sub(s) ==
    IF s = <<>> THEN <<>>
    ELSE IF Head(s) \in Digits THEN <<"0">> \o digits_sub(SkipDigits(s))
    ELSE <<Head(s)>> \o digits_sub(Tail(s))

simplify(token) == digits_sub(lower(token))

RECURSIVE simplify_all(_)
simplify_all(tokens) ==
    IF tokens = <<>> THEN <<>>
    ELSE <<simplify(Head(tokens))>> \o simplify_all(Tail(tokens))

\* ' '.join(tokens)
RECURSIVE join(_)
join(tokens) ==
    IF tokens = <<>> THEN <<>>
    ELSE IF Len(tokens) = 1 THEN tokens[1]
    ELSE tokens[1] \o <<SP>> \o join(Tail(tokens))

(***************************************************************************)
(* to_tokens, for one line of the input file.                              *)
(***************************************************************************)
\* for token, start, end in tokenize(line): tokens.append(simplify(token))
\* Each item tokenize yields is a string; the for statement unpacks it into
\* three names, which raises ValueError unless it has three characters.
RECURSIVE to_tokens_loop(_, _)
to_tokens_loop(items, tokens) ==
    IF items = <<>> THEN [tokens |-> tokens, error |-> ""]
    ELSE IF Len(Head(items)) # 3 THEN [tokens |-> tokens, error |-> "ValueError"]
    ELSE to_tokens_loop(Tail(items),
                        Append(tokens, simplify(<<Head(items)[1]>>)))

\* [output, error]: the lines written for the line, or the exception
to_tokens(input_line, min) ==
    LET r == to_tokens_loop(tokenize(input_line), <<>>)
    IN  IF r.error # "" THEN [output |-> <<>>, error |-> r.error]
        ELSE IF Len(r.tokens) >= min
        THEN [output |-> <<join(r.tokens) \o <<LF>>>>, error |-> ""]
        ELSE [output |-> <<>>, error |-> ""]

(***************************************************************************)
(* ZIM archives.  Indices are 0-based as in the file; element i of a       *)
(* stored array is array[i + 1].                                           *)
(***************************************************************************)
ZimMagic == 72173914
MimeRedirect == 65535
MimeLinkTarget == 65534
MimeDeleted == 65533
LzmaCompression == 4

\* The MIME type list of the archives of the model.
MimeTypes == <<"text/html", "image/png">>

\* The clusters and the blobs of each cluster.
ClusterIds == {0, 1}
BlobIds == {0, 1}

\* The file offset of the directory entry that is the k-th in the file.
EntryOffset(k) == 80 + 32 * k

\* The blob-offset table of a cluster: one offset per blob and the end.
BlobOffsets == [i \in 0..Cardinality(BlobIds) |->
                    4 * (Cardinality(BlobIds) + 1) + 10 * i]

\* The page stored as blob b of cluster c.
BlobPage(c, b) ==
    IF b = 1 /\ c = 0
        THEN Element("div", NoAttr, <<>>,
                     <<Element("a", NoAttr, <<"x">>, <<>>, <<>>)>>, <<>>)
    ELSE IF b = 1 THEN NoContent
    ELSE Element("div", NoAttr, <<"x">>,
                 <<Element("h2", NoAttr, <<"x">>, <<>>, <<>>)>>, <<>>)

\* Stable sort of <<key, value>> pairs by key (numpy.sort, sorted).
RECURSIVE InsertPair(_, _)
InsertPair(sorted, pair) ==
    IF sorted = <<>> THEN <<pair>>
    ELSE IF Last(sorted)[1] <= pair[1] THEN Append(sorted, pair)
    ELSE Append(InsertPair(Front(sorted), pair), Last(sorted))

RECURSIVE SortPairs(_)
SortPairs(pairs) ==
    IF pairs = <<>> THEN <<>>
    ELSE InsertPair(SortPairs(Front(pairs)), Last(pairs))

Values(pairs) == [i \in 1..Len(pairs) |-> pairs[i][2]]

\* numpy.sort(directory_offsets)
sort_offsets(offsets) ==
    Values(SortPairs([i \in 1..Len(offsets) |-> <<offsets[i], offsets[i]>>]))

\* The directory entry stored at a file offset.
EntryAt(archive, offset) ==
    archive.entries[CHOOSE k \in 1..Len(archive.entries) :
                        EntryOffset(k) = offset]

\* The scan's decision for one entry: "skip", "redirect" or "article".
\* This variant keeps every entry of namespace A that is no redirect,
\* whatever its MIME type.
classify_any_mime(entry) ==
    IF entry.mime = MimeLinkTarget \/ entry.mime = MimeDeleted THEN "skip"
    ELSE IF entry.namespace # "A" THEN "skip"
    ELSE IF entry.mime = MimeRedirect THEN "redirect"
    ELSE "article"

classify(entry) ==
    IF entry.mime = MimeLinkTarget \/ entry.mime = MimeDeleted THEN "skip"
    ELSE IF entry.mime # MimeRedirect /\ MimeTypes[entry.mime + 1] # "text/html"
        THEN "skip"
    ELSE IF entry.namespace # "A" THEN "skip"
    ELSE IF entry.mime = MimeRedirect THEN "redirect"
    ELSE "article"

\* The keys of article_items_per_cluster, in insertion order.
RECURSIVE cluster_keys(_, _)
cluster_keys(items, seen) ==
    IF items = <<>> THEN <<>>
    ELSE IF Head(items).cluster_index \in seen
        THEN cluster_keys(Tail(items), seen)
    ELSE <<Head(items).cluster_index>>
         \o cluster_keys(Tail(items), seen \cup {Head(items).cluster_index})

\* sorted(article_items_per_cluster) without the key: by cluster index.
sorted_clusters_by_index(items, cluster_offsets) ==
    LET keys == cluster_keys(items, {})
    IN  Values(SortPairs([i \in 1..Len(keys) |-> <<keys[i], keys[i]>>]))

\* sorted(article_items_per_cluster, key=lambda c: cluster_offsets[c])
sorted_clusters(items, cluster_offsets) ==
    LET keys == cluster_keys(items, {})
    IN  Values(SortPairs([i \in 1..Len(keys) |->
                            <<cluster_offsets[keys[i] + 1], keys[i]>>]))

RECURSIVE SelectCluster(_, _)
SelectCluster(items, c) ==
    IF items = <<>> THEN <<>>
    ELSE (IF Head(items).cluster_index = c THEN <<Head(items)>> ELSE <<>>)
         \o SelectCluster(Tail(items), c)

\* sorted(article_items_per_cluster[cluster_index], key=lambda x: x[2])
sorted_blobs(items, c) ==
    LET mine == SelectCluster(items, c)
    IN  Values(SortPairs([i \in 1..Len(mine) |->
                            <<mine[i].blob_index, mine[i]>>]))

(***************************************************************************)
(* State.                                                                  *)
(***************************************************************************)
VARIABLES
    \* parse of one page, stage by stage
    pc,         \* the stage parse is at
    data,       \* the page: its content element, or NoContent
    root,       \* parse's root node after decode
    sequence,   \* flatten's event stream
    cleaned,    \* clean's event stream
    article,    \* encode's XML element
    lines,      \* the lines to_plain_text writes for the article
    \* clean.py applied to one line of text
    cpc,            \* the next function to apply
    line,           \* the input line
    min_tokens,     \* to_tokens' parameter
    normalized,     \* normalize(line)
    renormalized,   \* normalize(normalized)
    tokens,         \* the simplified tokens of line
    retokens,       \* the simplified tokens of ' '.join(tokens)
    written,        \* to_tokens' output for the line, and its exception
    \* process over one archive
    zpc,                \* the step process is at
    zim,                \* the archive
    directory_offsets,  \* the sorted URL pointers
    directory_index,    \* the scan's loop variable
    directory_urls,     \* directory index -> url
    redirect_items,
    article_items,
    xml_file,           \* what was written to the output, in order
    cluster_queue,      \* the clusters still to stream, in order
    subfile,            \* the open cluster sub-stream and the reads made on it
    cluster_items,      \* the items of the open cluster still to write
    raised              \* the exception process ended with

pvars == <<pc, data, root, sequence, cleaned, article, lines>>
cvars == <<cpc, line, min_tokens, normalized, renormalized, tokens, retokens,
           written>>
zvars == <<zpc, zim, directory_offsets, directory_index, directory_urls,
           redirect_items, article_items, xml_file, cluster_queue, subfile,
           cluster_items, raised>>
vars == <<pvars, cvars, zvars>>

(***************************************************************************)
(* Pages.  html.fromstring builds the element tree of a page in document   *)
(* order: each new element becomes the last child of an element on the     *)
(* rightmost branch.  A page has at most MaxNodes elements below its       *)
(* content div.                                                            *)
(***************************************************************************)
PageText == {<<>>, <<LF, "x", SP, HT>>}
PageTags == {"div", "a", "b", "h2", "ul"}
VoidTags == {"br"}
Hrefs(tag) == IF tag = "a" THEN {"/wiki/x", NoAttr} ELSE {NoAttr}

RECURSIVE Size(_)
RECURSIVE SizeAll(_, _)
SizeAll(children, i) ==
    IF i > Len(children) THEN 0
    ELSE Size(children[i]) + SizeAll(children, i + 1)
Size(element) == 1 + SizeAll(element.children, 1)

\* The number of open elements below the given one on the rightmost branch.
RECURSIVE OpenDepth(_)
OpenDepth(element) ==
    IF element.children = <<>> \/ Last(element.children).tag \in VoidTags
    THEN 0
    ELSE 1 + OpenDepth(Last(element.children))

RECURSIVE AppendAt(_, _, _)
AppendAt(element, depth, new) ==
    IF depth = 0 THEN [element EXCEPT !.children = Append(@, new)]
    ELSE [element EXCEPT
            !.children[Len(element.children)] = AppendAt(@, depth - 1, new)]

PageUrl == "A/page"
PageTitle == <<"page">>
NoXml == Xml("<none>", NoAttr, <<>>, 0, NoAttr, <<>>, <<>>, <<>>)

ParseIdle ==
    /\ pc = "idle"
    /\ data = NoContent
    /\ root = Node("p", <<0>>, 0, NoAttr, <<>>)
    /\ sequence = <<>>
    /\ cleaned = <<>>
    /\ article = NoXml
    /\ lines = <<>>

CleanIdle ==
    /\ cpc = "idle"
    /\ line = <<>>
    /\ min_tokens = 0
    /\ normalized = <<>>
    /\ renormalized = <<>>
    /\ tokens = <<>>
    /\ retokens = <<>>
    /\ written = [output |-> <<>>, error |-> ""]

NoSubfile == [cluster |-> -1, table_pos |-> 0, start |-> 0, seeks |-> <<>>]
NoException == [error |-> "", at |-> ""]

ZimIdle ==
    /\ zpc = "idle"
    /\ zim = [magic |-> 0, url_pointers |-> <<>>, entries |-> <<>>,
              cluster_offsets |-> <<>>, compression |-> <<>>]
    /\ directory_offsets = <<>>
    /\ directory_index = 0
    /\ directory_urls = <<>>
    /\ redirect_items = <<>>
    /\ article_items = <<>>
    /\ xml_file = <<>>
    /\ cluster_queue = <<>>
    /\ subfile = NoSubfile
    /\ cluster_items = <<>>
    /\ raised = NoException

ParseInit ==
    /\ CleanIdle
    /\ ZimIdle
    /\ pc = "decode"
    /\ data \in {NoContent}
            \cup {Element("div", NoAttr, text, <<>>, <<>>) : text \in PageText}
    /\ root = Node("p", <<0>>, 0, NoAttr, <<>>)
    /\ sequence = <<>>
    /\ cleaned = <<>>
    /\ article = NoXml
    /\ lines = <<>>

\* parse: tree = html.fromstring(data), one more element of the page
ParseFromString ==
    /\ pc = "decode"
    /\ data # NoContent
    /\ Size(data) <= MaxNodes
    /\ \E depth \in 0..OpenDepth(data), tag \in PageTags \cup VoidTags,
          text \in PageText, tail \in PageText :
        \E href \in Hrefs(tag) :
            /\ tag \in VoidTags => text = <<>>
            /\ data' = AppendAt(data, depth,
                                Element(tag, href, text, <<>>, tail))
    /\ UNCHANGED <<pc, root, sequence, cleaned, article, lines, cvars, zvars>>

\* parse: root.content = decode(tree[0]); an a without href raises KeyError
ParseDecode ==
    /\ pc = "decode"
    /\ root' = parse_root(data)
    /\ pc' = IF Raised(root'.content) THEN "raised" ELSE "flatten"
    /\ UNCHANGED <<data, sequence, cleaned, article, lines, cvars, zvars>>

\* parse: sequence = flatten([root])
ParseFlatten ==
    /\ pc = "flatten"
    /\ sequence' = flatten(<<root>>)
    /\ pc' = "clean"
    /\ UNCHANGED <<data, root, cleaned, article, lines, cvars, zvars>>

\* parse: sequence = clean(sequence)
ParseClean ==
    /\ pc = "clean"
    /\ LET result == clean(sequence)
       IN  /\ cleaned' = result.result
           /\ pc' = IF result.error # "" THEN "raised" ELSE "encode"
    /\ UNCHANGED <<data, root, sequence, article, lines, cvars, zvars>>

\* parse: tree = encode(url, title, sequence)
ParseEncode ==
    /\ pc = "encode"
    /\ LET tree == encode(PageUrl, PageTitle, cleaned)
       IN  /\ article' = tree.element
           /\ pc' = IF tree.error # "" THEN "raised" ELSE "convert"
    /\ UNCHANGED <<data, root, sequence, cleaned, lines, cvars, zvars>>

\* to_plain_text over the article
ParseConvert ==
    /\ pc = "convert"
    /\ lines' = plain_lines(article)
    /\ pc' = "done"
    /\ UNCHANGED <<data, root, sequence, cleaned, article, cvars, zvars>>

ParseNext ==
    \/ ParseFromString
    \/ ParseDecode
    \/ ParseFlatten
    \/ ParseClean
    \/ ParseEncode
    \/ ParseConvert

SpecParse == ParseInit /\ [][ParseNext]_vars

(***************************************************************************)
(* Claims about parse.                                                     *)
(***************************************************************************)
Encoded == pc \in {"convert", "done"}
Cleaned == pc \in {"encode", "convert", "done"}

RECURSIVE NestedP(_, _)
NestedP(element, inP) ==
    \/ inP /\ element.tag = "p"
    \/ \E i \in 1..Len(element.children) :
            NestedP(element.children[i], inP \/ element.tag = "p")

\* C1: the XML element parse returns contains no p element that has a p
\* ancestor.
C1_NoNestedParagraph == Encoded => ~NestedP(article, FALSE)

\* The paragraphs of a clean sequence: <<i, j>>, the open-p at i and the
\* next close-p at j.
IsP(seq, i, begin) ==
    ~seq[i].str /\ seq[i].node.tag = "p" /\ seq[i].begin = begin

Paragraphs(seq) ==
    { <<i, j>> \in (1..Len(seq)) \X (1..Len(seq)) :
        /\ i < j
        /\ IsP(seq, i, TRUE)
        /\ IsP(seq, j, FALSE)
        /\ \A k \in (i + 1)..(j - 1) : ~IsP(seq, k, FALSE) }

RECURSIVE ParagraphText(_, _, _)
ParagraphText(seq, i, j) ==
    IF i > j THEN <<>>
    ELSE (IF seq[i].str THEN seq[i].text ELSE <<>>)
         \o ParagraphText(seq, i + 1, j)

\* C2: every paragraph clean emits contains at least one non-whitespace
\* character of text.
C2_ParagraphHasText ==
    Cleaned =>
        \A p \in Paragraphs(cleaned) :
            \E k \in 1..Len(ParagraphText(cleaned, p[1], p[2])) :
                ParagraphText(cleaned, p[1], p[2])[k]
                    \notin PyWhitespace \cup r_white

\* C3: the text of every paragraph clean emits has no two consecutive
\* spaces and no leading or trailing whitespace.
Collapsed(text) ==
    /\ \A k \in 1..(Len(text) - 1) : ~(text[k] = SP /\ text[k + 1] = SP)
    /\ text # <<>> =>
        Head(text) \notin PyWhitespace /\ Last(text) \notin PyWhitespace

C3_ParagraphTextCollapsed ==
    Cleaned =>
        \A p \in Paragraphs(cleaned) :
            Collapsed(ParagraphText(cleaned, p[1], p[2]))

\* The paragraph events and the structural events of flatten's output.
PEvents == {i \in 1..Len(sequence) : ~sequence[i].str /\ sequence[i].node.tag = "p"}
SEvents ==
    {i \in 1..Len(sequence) :
        ~sequence[i].str /\ sequence[i].node.tag \in FlattenStructural}

\* One pass over the events from position i on; open is <<>> when no
\* paragraph is open and <<node>> when the paragraph of node is.
RECURSIVE Alternates(_, _, _)
Alternates(seq, i, open) ==
    IF i > Len(seq) THEN open = <<>>
    ELSE IF seq[i].str THEN Alternates(seq, i + 1, open)
    ELSE IF seq[i].node.tag = "p" THEN
        IF seq[i].begin
        THEN open = <<>> /\ Alternates(seq, i + 1, <<seq[i].node>>)
        ELSE open = <<seq[i].node>> /\ Alternates(seq, i + 1, <<>>)
    ELSE IF seq[i].node.tag \in FlattenStructural
        THEN open = <<>> /\ Alternates(seq, i + 1, open)
    ELSE Alternates(seq, i + 1, open)

\* C14: in flatten's output the paragraph events alternate strictly: the
\* paragraph event after an open-p is the close of the same p node, the one
\* after a close-p (if any) is an open, no paragraph is open at the end,
\* and every structural event lies outside any open paragraph.
C14_ParagraphEventsAlternate == Alternates(sequence, 1, <<>>)

\* flatten has run on a tree with a paragraph nested in the content
\* paragraph and a structural element inside a paragraph.
C14_Witness ==
    /\ \E i \in PEvents : Len(sequence[i].node.id) >= 2
    /\ \E s \in SEvents : \E i \in PEvents : i < s
    /\ \E i \in 1..Len(sequence) : sequence[i].str

\* The sequence encode builds from: the clean sequence padded with the root.
Padded ==
    <<Tuple(TRUE, RootNode(PageUrl, PageTitle))>> \o cleaned
    \o <<Tuple(FALSE, RootNode(PageUrl, PageTitle))>>

\* The positions at which encode.build creates an h or dt element.
HeaderStarts ==
    {s \in 1..Len(Padded) :
        /\ ~Padded[s].str
        /\ Padded[s].begin
        /\ Padded[s].node.tag \in {"h", "dt"}}

\* The text and the children of the element started at s, as the loop of
\* build leaves them before the header rule is applied.
BuiltText(s) == IF Padded[s + 1].str THEN Padded[s + 1].text ELSE <<>>
BuiltChildren(s) ==
    encode_children(Padded, IF Padded[s + 1].str THEN s + 2 ELSE s + 1,
                    <<>>, FALSE).children

\* C12: an h or dt with exactly one child, a p, adopts the paragraph's text
\* and children and keeps no p child; with more than one child a warning
\* is logged and only the first child is inlined; with no child, or with
\* one child that is not a p, the element is left as built.
C12_HeaderInlinesParagraph ==
    Encoded =>
        \A s \in HeaderStarts :
            LET kids == BuiltChildren(s)
                built == encode_build(Padded, s)
                el == built.element
            IN  /\ (Len(kids) = 1 /\ kids[1].tag = "p") =>
                        /\ el.text = kids[1].text
                        /\ el.children = kids[1].children
                        /\ \A i \in 1..Len(el.children) :
                                el.children[i].tag # "p"
                /\ Len(kids) > 1 =>
                        /\ built.warned
                        /\ el.text = kids[1].text
                        /\ el.children = kids[1].children
                /\ (Len(kids) = 0 \/ (Len(kids) = 1 /\ kids[1].tag # "p")) =>
                        /\ el.text = BuiltText(s)
                        /\ el.children = kids

\* The tags of the HTML elements decode tells apart, and one it does not
\* know.
DecodeTags ==
    StructuralTags \cup DOMAIN HeaderLevel \cup ParagraphTags
    \cup {"a", "abbr", "time"} \cup KeptTags \cup CodeTags \cup MarkerTags
    \cup StrippedTags \cup IgnoredTags \cup {"unknown"}

AcceptedTags == {"h", "a", "abbr", "time"} \cup EncodeTags

\* The node decode makes of an element of any tag has a tag encode accepts.
DecodeYieldsAcceptedTags ==
    \A t \in DecodeTags :
        LET content == decode(Element(t, "/wiki/x", <<"x">>, <<>>, <<>>), <<1>>)
        IN  \A i \in 1..Len(content) :
                IsNode(content[i]) => content[i].tag \in AcceptedTags

\* One pass over a clean sequence from position i on: no two adjacent text
\* runs, no text outside a paragraph, only accepted tags, never more closes
\* than opens, and as many closes as opens at the end.
RECURSIVE WellFormed(_, _, _, _, _)
WellFormed(seq, i, balance, inP, afterText) ==
    IF i > Len(seq) THEN balance = 0
    ELSE IF seq[i].str
        THEN ~afterText /\ inP /\ WellFormed(seq, i + 1, balance, inP, TRUE)
    ELSE
        LET b == IF seq[i].begin THEN balance + 1 ELSE balance - 1
        IN  /\ seq[i].node.tag \in AcceptedTags
            /\ b >= 0
            /\ WellFormed(seq, i + 1, b,
                          IF seq[i].node.tag = "p" THEN seq[i].begin ELSE inP,
                          FALSE)

\* C16: encode runs to completion on every sequence clean produces from a
\* flatten output: clean's output has no two adjacent text runs and no text
\* outside a paragraph, its opens and closes are balanced with no prefix
\* having more closes than opens, every node tag is one encode accepts,
\* and build consumes the whole sequence.
C16_EncodeCompletes ==
    /\ pc = "raised" => (Raised(root.content) /\ sequence = <<>>)
    /\ pc = "encode" =>
        /\ WellFormed(cleaned, 1, 0, FALSE, FALSE)
        /\ LET built == encode_build(Padded, 1)
           IN  built.error = "" /\ built.index = Len(Padded) + 1
        /\ DecodeYieldsAcceptedTags
    /\ Encoded => article.tag = "article"

\* encode has built the article of a clean sequence in which a paragraph
\* holds the close of a link that was opened in an earlier paragraph.
C16_Witness ==
    /\ Encoded
    /\ \E i \in 1..Len(cleaned) : cleaned[i].str
    /\ \E p \in Paragraphs(cleaned) :
            \E k \in (p[1] + 1)..(p[2] - 1) :
                /\ ~cleaned[k].str
                /\ ~cleaned[k].begin
                /\ \A j \in (p[1] + 1)..(k - 1) :
                        cleaned[j].str \/ cleaned[j].node # cleaned[k].node

(***************************************************************************)
(* clean.py applied to a line of text.                                     *)
(***************************************************************************)
LineAlphabet ==
    {"a", "A", "1", ",", SP, HT, LF, NUL, LAQUO, SZ, ZHONG, IDOT}

RECURSIVE TextsOfLength(_)
TextsOfLength(n) ==
    IF n = 0 THEN {<<>>}
    ELSE {Append(t, c) : t \in TextsOfLength(n - 1), c \in LineAlphabet}

Texts == UNION {TextsOfLength(n) : n \in 0..MaxLen}

\* to_tokens(input_path, output_path, min_tokens=10)
DefaultMinTokens == 10

CleanInit ==
    /\ ParseIdle
    /\ ZimIdle
    /\ cpc = "normalize"
    /\ line \in Texts
    /\ min_tokens \in {1, DefaultMinTokens}
    /\ normalized = <<>>
    /\ renormalized = <<>>
    /\ tokens = <<>>
    /\ retokens = <<>>
    /\ written = [output |-> <<>>, error |-> ""]

Normalize ==
    /\ cpc = "normalize"
    /\ normalized' = normalize(line)
    /\ cpc' = "renormalize"
    /\ UNCHANGED <<line, min_tokens, renormalized, tokens, retokens, written,
                   pvars, zvars>>

Renormalize ==
    /\ cpc = "renormalize"
    /\ renormalized' = normalize(normalized)
    /\ cpc' = "tokenize"
    /\ UNCHANGED <<line, min_tokens, normalized, tokens, retokens, written,
                   pvars, zvars>>

Tokenize ==
    /\ cpc = "tokenize"
    /\ tokens' = simplify_all(tokenize(line))
    /\ cpc' = "retokenize"
    /\ UNCHANGED <<line, min_tokens, normalized, renormalized, retokens,
                   written, pvars, zvars>>

Retokenize ==
    /\ cpc = "retokenize"
    /\ retokens' = simplify_all(tokenize(join(tokens)))
    /\ cpc' = "to_tokens"
    /\ UNCHANGED <<line, min_tokens, normalized, renormalized, tokens,
                   written, pvars, zvars>>

ToTokens ==
    /\ cpc = "to_tokens"
    /\ written' = to_tokens(line, min_tokens)
    /\ cpc' = "done"
    /\ UNCHANGED <<line, min_tokens, normalized, renormalized, tokens,
                   retokens, pvars, zvars>>

CleanNext ==
    \/ Normalize
    \/ Renormalize
    \/ Tokenize
    \/ Retokenize
    \/ ToTokens

SpecClean == CleanInit /\ [][CleanNext]_vars

(***************************************************************************)
(* Claims about clean.py.                                                  *)
(***************************************************************************)
Renormalized == cpc \in {"tokenize", "retokenize", "to_tokens", "done"}
Retokenized == cpc \in {"to_tokens", "done"}

\* C8: normalize is idempotent: normalize(normalize(x)) = normalize(x).
C8_NormalizeIdempotent == Renormalized => renormalized = normalized

\* A line whose normalization folds characters, drops one and collapses
\* whitespace, normalized twice.
C8_Witness ==
    /\ Renormalized
    /\ normalized # <<>>
    /\ normalized # line
    /\ Len(normalized) # Len(line)
    /\ \E i \in 1..Len(line) : normalize_char(line[i]) = <<>>
    /\ \E i \in 1..Len(line) : line[i] \in RegexSpace

\* C9: simplifying the tokens of x, joining them with single spaces and
\* tokenizing and simplifying again yields the same token list.
C9_RetokenizeStable == Retokenized => retokens = tokens

\* C9 as amended: the same, for every text without U+0130, the one
\* character whose lowercase (i followed by U+0307) is not a run of letters.
C9_RetokenizeStableWithoutDottedI ==
    (Retokenized /\ \A i \in 1..Len(line) : line[i] # IDOT)
        => retokens = tokens

\* A text with a digit run inside a word and whitespace at its end, whose
\* tokens were joined and tokenized again.
C9_Witness ==
    /\ Retokenized
    /\ \A i \in 1..Len(line) : line[i] # IDOT
    /\ Len(tokens) >= 2
    /\ \E i \in 1..Len(tokens) : tokens[i] = <<"a", "0">>
    /\ Last(line) \in RegexSpace

\* C10: to_tokens never fails and writes the line's simplified tokens
\* joined by single spaces exactly when the line has at least min_tokens
\* tokens.
C10_ToTokensWrites ==
    cpc = "done" =>
        /\ written.error = ""
        /\ written.output =
            IF Len(tokens) >= min_tokens THEN <<join(tokens) \o <<LF>>>>
            ELSE <<>>

\* C11: every token tokenize yields is a maximal run of letter-or-digit
\* characters or exactly one other character that is not whitespace;
\* whitespace is never yielded as a token, also at the end of the text.
Tokenized == cpc \in {"retokenize", "to_tokens", "done"}

IsAlnumRun(text, m) ==
    /\ \A k \in m.start..m.end : text[k] \in Letters \cup Digits
    /\ m.start > 1 => text[m.start - 1] \notin Letters \cup Digits
    /\ m.end < Len(text) => text[m.end + 1] \notin Letters \cup Digits

C11_TokensNeverWhitespace ==
    Tokenized =>
        \A i \in 1..Len(token_spans(line)) :
            LET m == token_spans(line)[i]
            IN  \/ IsAlnumRun(line, m)
                \/ /\ m.start = m.end
                   /\ line[m.start] \notin Letters \cup Digits \cup RegexSpace

(***************************************************************************)
(* process over one archive.                                               *)
(***************************************************************************)
\* What a directory entry can be, in an archive of n entries.
EntryKinds(n) ==
    { [mime |-> 0, namespace |-> "A", redirect_index |-> 0,
       cluster_index |-> c, blob_index |-> b] : c \in ClusterIds, b \in BlobIds }
    \cup
    { [mime |-> m, namespace |-> "A", redirect_index |-> 0,
       cluster_index |-> 0, blob_index |-> 0] :
            m \in {1, MimeLinkTarget, MimeDeleted} }
    \cup
    { [mime |-> m, namespace |-> "I", redirect_index |-> 0,
       cluster_index |-> 0, blob_index |-> 0] : m \in {0, MimeRedirect} }
    \cup
    { [mime |-> MimeRedirect, namespace |-> "A", redirect_index |-> r,
       cluster_index |-> 0, blob_index |-> 0] : r \in 0..(n - 1) }

Url(k) == "A/" \o ToString(k)
Title(k) == <<ToString(k)>>

Archive(magic, kinds, order, cluster_order, compression) ==
    [magic |-> magic,
     url_pointers |-> [i \in 1..Len(kinds) |-> EntryOffset(order[i])],
     entries |-> [k \in 1..Len(kinds) |->
        [mime |-> kinds[k].mime, namespace |-> kinds[k].namespace,
         redirect_index |-> kinds[k].redirect_index,
         cluster_index |-> kinds[k].cluster_index,
         blob_index |-> kinds[k].blob_index,
         url |-> Url(k), title |-> Title(k)]],
     cluster_offsets |-> [c \in 1..Cardinality(ClusterIds) |->
                            1000 * cluster_order[c]],
     compression |-> compression]

ZimInit ==
    /\ ParseIdle
    /\ CleanIdle
    /\ zpc = "header"
    /\ \E n \in 0..MaxEntries :
        \E kinds \in [1..n -> EntryKinds(n)],
           order \in Permutations(1..n),
           cluster_order \in Permutations(1..Cardinality(ClusterIds)),
           compression \in {<<LzmaCompression, LzmaCompression>>,
                            <<LzmaCompression, 1>>},
           magic \in {ZimMagic, 0} :
            zim = Archive(magic, kinds, order, cluster_order, compression)
    /\ directory_offsets = <<>>
    /\ directory_index = 0
    /\ directory_urls = <<>>
    /\ redirect_items = <<>>
    /\ article_items = <<>>
    /\ xml_file = <<>>
    /\ cluster_queue = <<>>
    /\ subfile = NoSubfile
    /\ cluster_items = <<>>
    /\ raised = NoException

article_count == Len(zim.url_pointers)

Raise(error, at) ==
    /\ raised' = [error |-> error, at |-> at]
    /\ zpc' = "raised"

Written(tag, url, title, target, articles, redirects, node) ==
    [tag |-> tag, url |-> url, title |-> title, target |-> target,
     article |-> articles, redirect |-> redirects, node |-> node]

\* A header step that reads the counts and the directory offsets without
\* comparing the magic number.
Header_unchecked ==
    /\ zpc = "header"
    /\ directory_offsets' = sort_offsets(zim.url_pointers)
    /\ zpc' = "scan"
    /\ UNCHANGED <<zim, directory_index, directory_urls, redirect_items,
                   article_items, xml_file, cluster_queue, subfile,
                   cluster_items, raised, pvars, cvars>>

\* Check header, get counts and offsets, MIME types and directory offsets.
Header ==
    /\ zpc = "header"
    /\ IF zim.magic # ZimMagic
       THEN /\ Raise("IOError", "header")
            /\ UNCHANGED directory_offsets
       ELSE /\ directory_offsets' = sort_offsets(zim.url_pointers)
            /\ zpc' = "scan"
            /\ UNCHANGED raised
    /\ UNCHANGED <<zim, directory_index, directory_urls, redirect_items,
                   article_items, xml_file, cluster_queue, subfile,
                   cluster_items, pvars, cvars>>

\* One iteration of: for directory_index in range(article_count)
Scan ==
    /\ zpc = "scan"
    /\ directory_index < article_count
    /\ LET entry == EntryAt(zim, directory_offsets[directory_index + 1])
           kind == classify(entry)
       IN  /\ directory_urls' =
                IF kind = "skip" THEN directory_urls
                ELSE (directory_index :> entry.url) @@ directory_urls
           /\ redirect_items' =
                IF kind = "redirect"
                THEN Append(redirect_items,
                        [url |-> entry.url, title |-> entry.title,
                         redirect_index |-> entry.redirect_index])
                ELSE redirect_items
           /\ article_items' =
                IF kind = "article"
                THEN Append(article_items,
                        [url |-> entry.url, title |-> entry.title,
                         cluster_index |-> entry.cluster_index,
                         blob_index |-> entry.blob_index])
                ELSE article_items
    /\ directory_index' = directory_index + 1
    /\ UNCHANGED <<zpc, zim, directory_offsets, xml_file, cluster_queue,
                   subfile, cluster_items, raised, pvars, cvars>>

\* Open the output and write the root element with its attributes.
OpenOutput ==
    /\ zpc = "scan"
    /\ directory_index = article_count
    /\ xml_file' = <<Written("wikipedia", NoAttr, <<>>, NoAttr,
                             Len(article_items), Len(redirect_items), NoXml)>>
    /\ zpc' = "redirects"
    /\ UNCHANGED <<zim, directory_offsets, directory_index, directory_urls,
                   redirect_items, article_items, cluster_queue, subfile,
                   cluster_items, raised, pvars, cvars>>

\* One iteration of: for url, title, redirect_index in redirect_items
WriteRedirect ==
    /\ zpc = "redirects"
    /\ Len(xml_file) - 1 < Len(redirect_items)
    /\ LET item == redirect_items[Len(xml_file)]
       IN  IF item.redirect_index \notin DOMAIN directory_urls
           THEN /\ Raise("KeyError", "redirect")
                /\ UNCHANGED xml_file
           ELSE /\ xml_file' = Append(xml_file,
                    Written("redirect", item.url, item.title,
                            directory_urls[item.redirect_index], 0, 0, NoXml))
                /\ UNCHANGED <<zpc, raised>>
    /\ UNCHANGED <<zim, directory_offsets, directory_index, directory_urls,
                   redirect_items, article_items, cluster_queue, subfile,
                   cluster_items, pvars, cvars>>

\* Get cluster offsets, group the articles by cluster, order the clusters.
GroupClusters ==
    /\ zpc = "redirects"
    /\ Len(xml_file) - 1 = Len(redirect_items)
    /\ cluster_queue' = sorted_clusters(article_items, zim.cluster_offsets)
    /\ zpc' = "clusters"
    /\ UNCHANGED <<zim, directory_offsets, directory_index, directory_urls,
                   redirect_items, article_items, xml_file, subfile,
                   cluster_items, raised, pvars, cvars>>

\* Where the archive stores the blob-offset table of a cluster: at the start
\* of the LZMA stream, or after the compression byte and 3 reserved bytes.
TableAt(archive, c) ==
    IF archive.compression[c + 1] = LzmaCompression THEN 0
    ELSE archive.cluster_offsets[c + 1] + 4

\* Jump to the next cluster, open its sub-stream, acquire the blob table.
\* A table read from another place than the table's is not the table:
\* the blob count is wrong and filling offsets[1:] raises ValueError.
OpenCluster ==
    /\ zpc = "clusters"
    /\ cluster_items = <<>>
    /\ cluster_queue # <<>>
    /\ LET c == Head(cluster_queue)
           start == zim.cluster_offsets[c + 1]
           lzma == zim.compression[c + 1] = LzmaCompression
           opened == [cluster |-> c,
                      table_pos |-> IF lzma THEN 0 ELSE start + 1,
                      start |-> IF lzma THEN 0 ELSE start + 4,
                      seeks |-> <<>>]
       IN  /\ subfile' = opened
           /\ IF opened.table_pos # TableAt(zim, c)
              THEN /\ Raise("ValueError", "cluster")
                   /\ UNCHANGED <<cluster_queue, cluster_items>>
              ELSE /\ cluster_queue' = Tail(cluster_queue)
                   /\ cluster_items' = sorted_blobs(article_items, c)
                   /\ UNCHANGED <<zpc, raised>>
    /\ UNCHANGED <<zim, directory_offsets, directory_index, directory_urls,
                   redirect_items, article_items, xml_file, pvars, cvars>>

\* One iteration of the loop over the blobs of the open cluster: read the
\* bytes, convert and export the article.
WriteArticle ==
    /\ zpc = "clusters"
    /\ cluster_items # <<>>
    /\ LET item == Head(cluster_items)
           pos == subfile.start + BlobOffsets[item.blob_index]
           node == parse(item.url, item.title,
                         BlobPage(subfile.cluster, item.blob_index))
       IN  /\ subfile' = [subfile EXCEPT !.seeks = Append(@, pos)]
           /\ IF node.error # ""
              THEN /\ Raise(node.error, "parse")
                   /\ UNCHANGED <<xml_file, cluster_items>>
              ELSE /\ xml_file' = Append(xml_file,
                        Written("article", item.url, item.title, NoAttr, 0, 0,
                                node.element))
                   /\ cluster_items' = Tail(cluster_items)
                   /\ UNCHANGED <<zpc, raised>>
    /\ UNCHANGED <<zim, directory_offsets, directory_index, directory_urls,
                   redirect_items, article_items, cluster_queue, pvars, cvars>>

\* The output and the archive are closed; unknown tags are reported.
Finish ==
    /\ zpc = "clusters"
    /\ cluster_items = <<>>
    /\ cluster_queue = <<>>
    /\ zpc' = "done"
    /\ UNCHANGED <<zim, directory_offsets, directory_index, directory_urls,
                   redirect_items, article_items, xml_file, cluster_queue,
                   subfile, cluster_items, raised, pvars, cvars>>

ZimNext ==
    \/ Header
    \/ Scan
    \/ OpenOutput
    \/ WriteRedirect
    \/ GroupClusters
    \/ OpenCluster
    \/ WriteArticle
    \/ Finish

SpecZim == ZimInit /\ [][ZimNext]_vars

(***************************************************************************)
(* Claims about process.                                                   *)
(***************************************************************************)
\* An entry of namespace A whose MIME code resolves to text/html.
IsArticleEntry(entry) ==
    /\ entry.namespace = "A"
    /\ entry.mime \notin {MimeRedirect, MimeLinkTarget, MimeDeleted}
    /\ MimeTypes[entry.mime + 1] = "text/html"

IsRedirectEntry(entry) ==
    entry.namespace = "A" /\ entry.mime = MimeRedirect

ArticleEntries ==
    {k \in 1..Len(zim.entries) : IsArticleEntry(zim.entries[k])}
RedirectEntries ==
    {k \in 1..Len(zim.entries) : IsRedirectEntry(zim.entries[k])}

WrittenAs(tag) == {i \in 1..Len(xml_file) : xml_file[i].tag = tag}

\* The position in the file of the entry with the given url.
EntryOfUrl(url) ==
    CHOOSE k \in 1..Len(zim.entries) : zim.entries[k].url = url

\* C4: the article attribute of the root equals the number of entries of
\* namespace A whose MIME code resolves to text/html, the redirect
\* attribute the number of namespace-A redirect entries, and a run that
\* completes has written exactly that many article elements.
C4_CountsMatchDirectory ==
    /\ xml_file # <<>> =>
        /\ xml_file[1].tag = "wikipedia"
        /\ xml_file[1].article = Cardinality(ArticleEntries)
        /\ xml_file[1].redirect = Cardinality(RedirectEntries)
    /\ zpc = "done" =>
        Cardinality(WrittenAs("article")) = Cardinality(ArticleEntries)

\* A completed run over an archive with an article, a redirect to it, and
\* both written.
C4_Witness ==
    /\ zpc = "done"
    /\ xml_file[1].article = 1
    /\ xml_file[1].redirect = 1
    /\ Cardinality(WrittenAs("article")) = 1
    /\ Cardinality(WrittenAs("redirect")) = 1

\* C5: after the scan the directory_index-to-url mapping has an entry for
\* every target of a recorded redirect, and writing the redirect elements
\* never fails on a missing key.
C5_RedirectTargetsMapped ==
    /\ xml_file # <<>> =>
        \A i \in 1..Len(redirect_items) :
            redirect_items[i].redirect_index \in DOMAIN directory_urls
    /\ raised.at # "redirect"

\* C6: every redirect element is written before any article element, the
\* redirects in scan order, the articles in ascending order of their
\* cluster's file offset and, within a cluster, of blob index; the read
\* positions requested within a cluster sub-stream never decrease.
C6_OutputOrdered ==
    /\ \A i, j \in 1..Len(xml_file) :
        i < j =>
            /\ ~(xml_file[i].tag = "article" /\ xml_file[j].tag = "redirect")
            /\ (xml_file[i].tag = "redirect" /\ xml_file[j].tag = "redirect")
                => EntryOfUrl(xml_file[i].url) < EntryOfUrl(xml_file[j].url)
            /\ (xml_file[i].tag = "article" /\ xml_file[j].tag = "article")
                => LET a == zim.entries[EntryOfUrl(xml_file[i].url)]
                       b == zim.entries[EntryOfUrl(xml_file[j].url)]
                       offset(e) == zim.cluster_offsets[e.cluster_index + 1]
                   IN  \/ offset(a) < offset(b)
                       \/ /\ a.cluster_index = b.cluster_index
                          /\ a.blob_index <= b.blob_index
    /\ \A i, j \in 1..Len(subfile.seeks) :
        i < j => subfile.seeks[i] <= subfile.seeks[j]

\* A completed run that wrote two articles of two clusters, the cluster
\* with the larger index first, in the opposite of the scan order.
C6_Witness ==
    /\ zpc = "done"
    /\ Len(xml_file) = 3
    /\ xml_file[2].tag = "article"
    /\ xml_file[3].tag = "article"
    /\ zim.entries[EntryOfUrl(xml_file[2].url)].cluster_index = 1
    /\ zim.entries[EntryOfUrl(xml_file[3].url)].cluster_index = 0
    /\ EntryOfUrl(xml_file[2].url) > EntryOfUrl(xml_file[3].url)

\* C7: an error raised while parsing the HTML of one article is caught:
\* process does not end with it.
C7_ParseErrorCaught == raised.at # "parse"

\* C13: when the magic number of the archive is not 72173914, process fails
\* with the invalid-file error at the header check, having read no other
\* part of the archive and neither created nor written the output.
C13_BadMagicFailsFirst ==
    zim.magic # ZimMagic =>
        /\ zpc \in {"header", "raised"}
        /\ zpc = "raised" => raised = [error |-> "IOError", at |-> "header"]
        /\ directory_offsets = <<>>
        /\ directory_index = 0
        /\ directory_urls = <<>>
        /\ redirect_items = <<>>
        /\ article_items = <<>>
        /\ xml_file = <<>>
        /\ subfile = NoSubfile

\* process has failed on an archive that has a wrong magic number and a
\* directory with an article in it.
C13_Witness ==
    /\ zpc = "raised"
    /\ raised.at = "header"
    /\ zim.magic # ZimMagic
    /\ \E k \in 1..Len(zim.entries) : IsArticleEntry(zim.entries[k])

\* C15: for a cluster whose compression byte is not 4, the blob-offset
\* table is read at cluster_pointer + 4 and blob i is read at
\* cluster_pointer + 4 + offset[i]: the table and the blobs are located
\* from the same origin.
C15_TableAndBlobsSameOrigin ==
    (subfile.cluster # -1
     /\ zim.compression[subfile.cluster + 1] # LzmaCompression) =>
        LET origin == zim.cluster_offsets[subfile.cluster + 1] + 4
        IN  /\ subfile.table_pos = origin
            /\ subfile.start = origin
            /\ \A i \in 1..Len(subfile.seeks) :
                    \E b \in BlobIds :
                        subfile.seeks[i] = origin + BlobOffsets[b]

\* C17: the target attribute written for a redirect is the URL of the
\* directory entry that the URL-pointer array, as stored in the archive,
\* holds at the redirect's target index, also when the stored array is not
\* in ascending offset order.
C17_RedirectTargetIsStoredEntry ==
    \A i \in WrittenAs("redirect") :
        LET e == zim.entries[EntryOfUrl(xml_file[i].url)]
        IN  xml_file[i].target =
                EntryAt(zim, zim.url_pointers[e.redirect_index + 1]).url

=============================================================================
